---- MODULE Spec2Model ----
(***************************************************************************)
(* similarities.ipynb: similarity_comp(df, player_name, player_season).    *)
(*                                                                         *)
(* The notebook loads a feature table (a data frame with the columns       *)
(* "player", "season" and the four numeric columns 0..3), and every call   *)
(* of similarity_comp fits a scikit-learn NearestNeighbors index on the    *)
(* four numeric columns, looks the requested player-season up by exact     *)
(* filtering, asks the index for the 10 nearest rows and prints their      *)
(* (player, season) columns.                                               *)
(*                                                                         *)
(* Feature values are modelled as integers in tenths (0.4 is 4), and       *)
(* Euclidean distances by their squares, which order the same way.         *)
(***************************************************************************)
EXTENDS Integers, Sequences, FiniteSets, TLC

\* NearestNeighbors(n_neighbors=10, ...) and kneighbors([x], 10, ...)
K == 10
\* NearestNeighbors(..., radius=0.4), in tenths
Radius == 4
\* the four feature columns df[[0, 1, 2, 3]]
D == 4
\* largest table of the model
MaxRows == 11
\* smallest table of the model: one row short of n_neighbors
MinRows == K - 1

VARIABLES
    df,                 \* the table passed to similarity_comp (fw or mf)
    tie_order,          \* how this build of the library orders equal distances
    n_features_first,   \* whether this build checks the query width before n_neighbors
    n_nbrs,             \* the index fitted by the last call
    query,              \* the arguments of the last call
    x,                  \* the query vector of the last call
    error,              \* the message of the ValueError the last call ended in
    neigh_ind,          \* the row positions kneighbors returned
    printed,            \* what print(x) wrote
    earlier             \* the first call of the run (kept to compare re-runs)

vars == <<df, tie_order, n_features_first, n_nbrs, query, x, error, neigh_ind,
          printed, earlier>>

----------------------------------------------------------------------------
\* The tables of the model

Names == <<"Lewandowski", "Benzema", "Suarez", "Ronaldo">>
Seasons == <<1718, 1819, 1920>>
Absent == "Nobody"

\* the player-seasons asked for: the first and the last player of the tables and
\* one who is in no table, in two of the seasons
Players == {Names[1], Names[Len(Names)], Absent}
SeasonCodes == {Seasons[1], Seasons[2]}

\* three feature vectors: the origin, one within the radius of it, one beyond
V0 == <<0, 0, 0, 0>>
V1 == <<1, 0, 2, 0>>
V2 == <<0, 3, 0, 4>>
Vecs == {V0, V1, V2}
VecOrders == {<<V0, V1, V2>>, <<V1, V2, V0>>, <<V2, V0, V1>>}

\* the player-season of row i when no row is a duplicate
Ident(i) ==
    [player |-> Names[((i - 1) \div Len(Seasons)) + 1],
     season |-> Seasons[((i - 1) % Len(Seasons)) + 1]]

\* a table of n rows: three runs of equal feature vectors cut at c1 and c2,
\* and (dup > 1) row dup entered a second time under the identity of row 1
Table(n, c1, c2, p, dup) ==
    [i \in 1..n |->
        [player |-> IF i = dup THEN Ident(1).player ELSE Ident(i).player,
         season |-> IF i = dup THEN Ident(1).season ELSE Ident(i).season,
         feat   |-> IF i <= c1 THEN p[1] ELSE IF i <= c2 THEN p[2] ELSE p[3]]]

Sizes == (MinRows..MaxRows) \cap (1..(Len(Names) * Len(Seasons)))

Tables ==
    { Table(n, c[1], c[2], p, dup) :
        n \in Sizes,
        c \in {c \in (0..MaxRows) \X (0..MaxRows) : c[1] <= c[2]},
        p \in VecOrders,
        dup \in {0, 2, MinRows} }

\* the tables of the re-run specification: two runs of equal feature vectors
RerunTables ==
    { Table(n, c, c, p, dup) :
        n \in Sizes, c \in 0..MaxRows, p \in VecOrders, dup \in {0, 2, MinRows} }

----------------------------------------------------------------------------
\* pandas

\* df[[0, 1, 2, 3]]
Features(table) == [i \in 1..Len(table) |-> table[i].feat]

\* the rows selected by (df["player"] == str(player_name)) & (df["season"] == player_season);
\* every player_name of the model is a string, which str() returns as it is
Matches(table, player_name, player_season) ==
    {i \in 1..Len(table) :
        table[i].player = player_name /\ table[i].season = player_season}

RECURSIVE Ravel(_, _, _)
\* .to_numpy().ravel().tolist(): the selected rows' features, row after row
Ravel(table, rows, i) ==
    IF i > Len(table) THEN <<>>
    ELSE (IF i \in rows THEN table[i].feat ELSE <<>>) \o Ravel(table, rows, i + 1)

\* variant: only the first selected row is read (.iloc[0] before .tolist())
Lookup_FirstMatch(table, player_name, player_season) ==
    LET rows == Matches(table, player_name, player_season)
    IN  IF rows = {} THEN <<>>
        ELSE table[CHOOSE i \in rows : \A j \in rows : i <= j].feat

\* variant: an empty selection falls back to the first row of the table
Lookup_OrFirstRow(table, player_name, player_season) ==
    LET rows == Matches(table, player_name, player_season)
    IN  IF rows = {} THEN table[1].feat ELSE Ravel(table, rows, 1)

\* df.loc[...][[0, 1, 2, 3]].to_numpy().ravel().tolist()
Lookup(table, player_name, player_season) ==
    Ravel(table, Matches(table, player_name, player_season), 1)

\* variant: the rows are selected by a mask, so they print in table order
Project_TableOrder(table, ind) ==
    [r \in 1..Len(ind) |->
        LET i == CHOOSE i \in 1..Len(table) :
                    /\ \E a \in 1..Len(ind) : ind[a] = i
                    /\ Cardinality({b \in 1..Len(ind) : ind[b] < i}) = r - 1
        IN  [player |-> table[i].player, season |-> table[i].season]]

\* df.iloc[ind][["player", "season"]]
Project(table, ind) ==
    [r \in 1..Len(ind) |->
        [player |-> table[ind[r]].player, season |-> table[ind[r]].season]]

----------------------------------------------------------------------------
\* scikit-learn

NoError == "none"
ErrEmpty == "Found array with 0 feature(s) while a minimum of 1 is required"
ErrFeatures == "query has a different number of features than the fitted data"
ErrNeighbors == "Expected n_neighbors <= n_samples"

TieOrders == {"lower_index_first", "higher_index_first"}

\* NearestNeighbors(n_neighbors=10, radius=0.4).fit(df[[0, 1, 2, 3]])
Fit(table) ==
    [n_neighbors |-> K, radius |-> Radius, fit_X |-> Features(table)]

RECURSIVE SumSq(_, _, _)
SumSq(a, b, i) ==
    IF i > Len(a) THEN 0
    ELSE (a[i] - b[i]) * (a[i] - b[i]) + SumSq(a, b, i + 1)

\* squared Euclidean distance
Dist2(a, b) == SumSq(a, b, 1)

\* variant: the farthest rows come first
Key_Descending(est, q, i, ties) ==
    (0 - Dist2(est.fit_X[i], q)) * (Len(est.fit_X) + 1)
        + (IF ties = "lower_index_first" THEN i ELSE Len(est.fit_X) + 1 - i)

\* variant: the distance is left out of the key, the rows come in index order
Key_IndexOnly(est, q, i, ties) ==
    IF ties = "lower_index_first" THEN i ELSE Len(est.fit_X) + 1 - i

\* the sort key of fitted row i for query vector q: distance, then the build's tie order
Key(est, q, i, ties) ==
    Dist2(est.fit_X[i], q) * (Len(est.fit_X) + 1)
        + (IF ties = "lower_index_first" THEN i ELSE Len(est.fit_X) + 1 - i)

RECURSIVE Keys(_, _, _, _)
\* the sort keys of fitted rows i, i+1, ...
Keys(est, q, i, ties) ==
    IF i > Len(est.fit_X) THEN <<>>
    ELSE <<Key(est, q, i, ties)>> \o Keys(est, q, i + 1, ties)

RECURSIVE Ranks(_, _)
\* the ranks of the keys i, i+1, ...: 1 for the smallest key
Ranks(keys, i) ==
    IF i > Len(keys) THEN <<>>
    ELSE <<Cardinality({j \in 1..Len(keys) : keys[j] < keys[i]}) + 1>>
         \o Ranks(keys, i + 1)

RECURSIVE Ranked(_, _, _)
\* the rows holding ranks r, r+1, ..., n
Ranked(ranks, r, n) ==
    IF r > n THEN <<>>
    ELSE <<CHOOSE i \in 1..Len(ranks) : ranks[i] = r>> \o Ranked(ranks, r + 1, n)

\* variant: one neighbour short
Nearest_OneShort(est, q, n, ties) ==
    Ranked(Ranks(Keys(est, q, 1, ties), 1), 1, n - 1)

\* variant: the radius of the estimator cuts the neighbours off (radius_neighbors)
Nearest_WithinRadius(est, q, n, ties) ==
    SelectSeq(Ranked(Ranks(Keys(est, q, 1, ties), 1), 1, n),
              LAMBDA i : Dist2(est.fit_X[i], q) <= est.radius * est.radius)

\* the n rows of the index nearest to q, nearest first
Nearest(est, q, n, ties) == Ranked(Ranks(Keys(est, q, 1, ties), 1), 1, n)

\* the ValueError kneighbors([q], n) raises, if any
KNeighborsError(est, q, n, features_first) ==
    IF Len(q) = 0 THEN ErrEmpty
    ELSE IF features_first /\ Len(q) # D THEN ErrFeatures
    ELSE IF n > Len(est.fit_X) THEN ErrNeighbors
    ELSE IF Len(q) # D THEN ErrFeatures
    ELSE NoError

\* variant: more neighbours asked for than rows fitted returns all the rows
KNeighbors_Clamped(est, q, n, ties, features_first) ==
    IF Len(q) = D /\ n > Len(est.fit_X)
    THEN [error |-> NoError, ind |-> Nearest(est, q, Len(est.fit_X), ties)]
    ELSE LET err == KNeighborsError(est, q, n, features_first)
         IN  [error |-> err,
              ind   |-> IF err = NoError THEN Nearest(est, q, n, ties) ELSE <<>>]

\* n_nbrs.kneighbors([q], n, return_distance=False).ravel().tolist(), or the error
KNeighbors(est, q, n, ties, features_first) ==
    LET err == KNeighborsError(est, q, n, features_first)
    IN  [error |-> err,
         ind   |-> IF err = NoError THEN Nearest(est, q, n, ties) ELSE <<>>]

----------------------------------------------------------------------------
\* The notebook

NoQuery == [player |-> "", season |-> 0]
NoRun == [query |-> NoQuery, error |-> NoError, printed |-> <<>>, others |-> 0]

Start ==
    /\ tie_order \in TieOrders
    /\ n_features_first \in BOOLEAN
    /\ n_nbrs = [n_neighbors |-> K, radius |-> Radius, fit_X |-> <<>>]
    /\ query = NoQuery
    /\ x = <<>>
    /\ error = NoError
    /\ neigh_ind = <<>>
    /\ printed = <<>>
    /\ earlier = NoRun

Init == df \in Tables /\ Start

InitRerun == df \in RerunTables /\ Start

\* variant: the looked-up rows are taken out of the table (df.drop(..., inplace=True))
similarity_comp_Consuming(player_name, player_season) ==
    \E est \in {Fit(df)} :
    \E q \in {Lookup(df, player_name, player_season)} :
    \E res \in {KNeighbors(est, q, K, tie_order, n_features_first)} :
        /\ n_nbrs' = est
        /\ query' = [player |-> player_name, season |-> player_season]
        /\ x' = q
        /\ error' = res.error
        /\ neigh_ind' = res.ind
        /\ printed' = IF res.error = NoError THEN Project(df, res.ind) ELSE <<>>
        /\ df' = SelectSeq(df, LAMBDA row :
                    ~(row.player = player_name /\ row.season = player_season))
        /\ UNCHANGED <<tie_order, n_features_first>>

\* similarity_comp(df, player_name, player_season): est is n_nbrs after fit, q the
\* first x, res the outcome of kneighbors (each bound once, then used)
similarity_comp(player_name, player_season) ==
    \E est \in {Fit(df)} :
    \E q \in {Lookup(df, player_name, player_season)} :
    \E res \in {KNeighbors(est, q, K, tie_order, n_features_first)} :
        /\ n_nbrs' = est
        /\ query' = [player |-> player_name, season |-> player_season]
        /\ x' = q
        /\ error' = res.error
        /\ neigh_ind' = res.ind
        /\ printed' = IF res.error = NoError THEN Project(df, res.ind) ELSE <<>>
        /\ UNCHANGED <<df, tie_order, n_features_first>>

\* a cell of the notebook calls similarity_comp
Call ==
    \E player_name \in Players, player_season \in SeasonCodes :
        /\ similarity_comp(player_name, player_season)
        /\ UNCHANGED earlier

\* the same, remembering the first call of the run and whether a call for
\* another player-season followed it
CallRecorded ==
    \E player_name \in Players, player_season \in SeasonCodes :
        /\ similarity_comp(player_name, player_season)
        /\ earlier' =
              IF earlier = NoRun
              THEN [query |-> query', error |-> error', printed |-> printed',
                    others |-> 0]
              ELSE IF query' # earlier.query
              THEN [earlier EXCEPT !.others = 1]
              ELSE earlier

Next == Call

NextRerun == CallRecorded

Spec == Init /\ [][Next]_vars

SpecRerun == InitRerun /\ [][NextRerun]_vars

----------------------------------------------------------------------------
\* What the properties below read off a state

\* some call has been made
Called == query # NoQuery

\* the rows of the table that carry the requested player-season
Hits == Matches(df, query.player, query.season)

\* the first (and, when the identity is unique, the only) matching row
Target == CHOOSE i \in Hits : \A j \in Hits : i <= j
LastHit == CHOOSE i \in Hits : \A j \in Hits : j <= i

\* squared distance of row i to the feature vector of the requested row
DistTo(i) == Dist2(df[i].feat, df[Target].feat)

\* the rows the last call returned
Returned == {neigh_ind[r] : r \in 1..Len(neigh_ind)}

\* the (player, season) pair of row i
IdentOf(i) == [player |-> df[i].player, season |-> df[i].season]

\* the rows with exactly the feature vector of the requested row
Zeros == {i \in 1..Len(df) : DistTo(i) = 0}

\* the returned rows are listed nearest first
NearestFirst ==
    \A r \in 1..(Len(neigh_ind) - 1) : DistTo(neigh_ind[r]) <= DistTo(neigh_ind[r + 1])

\* the printed pairs are those of the returned rows, in the same order
PrintedInOrder ==
    /\ Len(printed) = Len(neigh_ind)
    /\ \A r \in 1..Len(neigh_ind) : printed[r] = IdentOf(neigh_ind[r])

\* the last call ended in an error and printed nothing
Failed == error # NoError /\ neigh_ind = <<>> /\ printed = <<>>

----------------------------------------------------------------------------
\* C1 as stated: with at least K rows, a query for a player-season present in the
\* table returns exactly K results, each the pair of a row of the table.
C1_AnyPresentIdentityGetsK ==
    (Called /\ Hits # {} /\ Len(df) >= K) =>
        /\ error = NoError
        /\ Len(printed) = K
        /\ \A r \in 1..Len(printed) : \E i \in 1..Len(df) : printed[r] = IdentOf(i)

\* C1 (amended): with at least K rows, a query for a player-season carried by exactly
\* one row returns exactly K results, each the (player, season) pair of a row of the
\* table; a player-season carried by several rows ends in an error instead.
C1_UniqueIdentityGetsK ==
    (Called /\ Len(df) >= K) =>
        /\ Cardinality(Hits) = 1 =>
              /\ error = NoError
              /\ Len(printed) = K
              /\ Len(neigh_ind) = K
              /\ \A r \in 1..K : neigh_ind[r] \in 1..Len(df)
              /\ \A r \in 1..K : printed[r] = IdentOf(neigh_ind[r])
        /\ Cardinality(Hits) > 1 => Failed

C1_Witness ==
    /\ Called /\ Cardinality(Hits) = 1 /\ Len(df) > K
    /\ Len(printed) = K /\ Returned # 1..K

\* C2: whenever results are produced they are listed in non-decreasing distance from
\* the requested row's vector, no returned row is farther than a row that was not
\* returned, and the printed pairs follow the order of the returned rows.
C2_SortedTopK ==
    (Called /\ error = NoError) =>
        /\ NearestFirst
        /\ \A i \in Returned : \A j \in (1..Len(df)) \ Returned : DistTo(i) <= DistTo(j)
        /\ PrintedInOrder

C2_Witness ==
    /\ Called /\ error = NoError /\ Len(df) > K
    /\ \E r \in 1..(K - 1) : DistTo(neigh_ind[r]) < DistTo(neigh_ind[r + 1])
    /\ \E j \in (1..Len(df)) \ Returned : DistTo(j) > DistTo(neigh_ind[K])

\* C3 as stated: with at least K rows, querying any row's own player-season returns
\* that row, and the rows tied with it at distance 0 appear in table order.
C3_SelfIncludedTiesInRowOrder ==
    (Called /\ Hits # {} /\ Len(df) >= K) =>
        /\ Hits \subseteq Returned
        /\ \A a, b \in 1..Len(neigh_ind) :
              (a < b /\ DistTo(neigh_ind[a]) = 0 /\ DistTo(neigh_ind[b]) = 0)
                  => neigh_ind[a] < neigh_ind[b]

\* C3 (amended): with at least K rows, querying the player-season of a row r that no
\* other row carries returns r itself (at distance 0) provided at most K rows have r's
\* exact feature vector; the returned rows at distance 0 come before every returned
\* row at a positive distance, in the order the library build gives to equal
\* distances, which need not be table order.
C3_SelfIncludedUnlessCrowded ==
    (Called /\ Cardinality(Hits) = 1 /\ Len(df) >= K) =>
        /\ error = NoError
        /\ Cardinality(Zeros) <= K => Zeros \subseteq Returned
        /\ Cardinality(Zeros) >= K => Returned \subseteq Zeros
        /\ \A a, b \in 1..Len(neigh_ind) :
              (DistTo(neigh_ind[a]) = 0 /\ DistTo(neigh_ind[b]) > 0) => a < b
        /\ \A a, b \in 1..Len(neigh_ind) :
              (a < b /\ DistTo(neigh_ind[a]) = 0 /\ DistTo(neigh_ind[b]) = 0) =>
                  IF tie_order = "lower_index_first"
                  THEN neigh_ind[a] < neigh_ind[b]
                  ELSE neigh_ind[a] > neigh_ind[b]

C3_Witness ==
    /\ Called /\ Cardinality(Hits) = 1 /\ Len(df) > K
    /\ Cardinality(Zeros) > 1 /\ Cardinality(Zeros) < K
    /\ Target \in Returned
    /\ neigh_ind[1] # Target

\* C4: a query for a player-season that no row carries ends in the error of the empty
\* query vector, and nothing is returned or printed.
C4_AbsentIdentityFails ==
    (Called /\ Hits = {}) =>
        /\ x = <<>>
        /\ error = ErrEmpty
        /\ neigh_ind = <<>>
        /\ printed = <<>>

C4_Witness ==
    Called /\ Hits = {} /\ Len(df) > K /\ error = ErrEmpty /\ printed = <<>>

\* C5 as stated: with fewer than K rows every query, whatever the player-season, ends
\* in the error of n_neighbors exceeding the number of rows.
C5_SmallTableAlwaysInvalidK ==
    (Called /\ Len(df) < K) => (error = ErrNeighbors /\ printed = <<>>)

\* C5 (amended): with fewer than K rows every query ends in an error and returns
\* nothing; the error is the n_neighbors one when exactly one row carries the
\* player-season, the empty-query one when no row does, and with several matching rows
\* whichever of the width and the n_neighbors check the library build makes first.
C5_SmallTableFails ==
    (Called /\ Len(df) < K) =>
        /\ Failed
        /\ Cardinality(Hits) = 1 => error = ErrNeighbors
        /\ Hits = {} => error = ErrEmpty
        /\ Cardinality(Hits) > 1 =>
              error = IF n_features_first THEN ErrFeatures ELSE ErrNeighbors

C5_Witness ==
    Called /\ Len(df) < K /\ Cardinality(Hits) = 1 /\ error = ErrNeighbors

C7_AnyPresentIdentityGetsAllRows ==
    (Called /\ Hits # {} /\ Len(df) = K) =>
        /\ Len(neigh_ind) = K
        /\ Returned = 1..Len(df)
        /\ NearestFirst

\* C7 (amended): with exactly K rows, a query for a player-season carried by exactly
\* one row returns every row of the table exactly once, nearest first, and prints
\* their pairs in that order.
C7_UniqueIdentityGetsAllRows ==
    (Called /\ Cardinality(Hits) = 1 /\ Len(df) = K) =>
        /\ error = NoError
        /\ Len(neigh_ind) = K
        /\ Returned = 1..Len(df)
        /\ NearestFirst
        /\ PrintedInOrder

C7_Witness ==
    /\ Called /\ Cardinality(Hits) = 1 /\ Len(df) = K
    /\ Returned = 1..K
    /\ DistTo(neigh_ind[1]) < DistTo(neigh_ind[K])

\* C8 as stated: when several rows carry the requested player-season, the first of
\* them in table order supplies the query vector and the call completes with K
\* results.
C8_FirstMatchIsUsed ==
    (Called /\ Cardinality(Hits) > 1 /\ Len(df) >= K) =>
        /\ x = df[Target].feat
        /\ error = NoError
        /\ Len(printed) = K

\* C8 (amended): when several rows carry the requested player-season, the feature
\* vectors of all of them, in table order, are joined into one query vector of D
\* values per matching row; the neighbour search refuses it and the call ends in an
\* error (the width error when the table has at least K rows) with nothing printed.
C8_AllMatchesAreJoined ==
    (Called /\ Cardinality(Hits) > 1) =>
        /\ Len(x) = D * Cardinality(Hits)
        /\ SubSeq(x, 1, D) = df[Target].feat
        /\ SubSeq(x, Len(x) - D + 1, Len(x)) = df[LastHit].feat
        /\ Failed
        /\ Len(df) >= K => error = ErrFeatures

C8_Witness ==
    /\ Called /\ Cardinality(Hits) = 2 /\ Len(df) >= K
    /\ Len(x) = 2 * D /\ error = ErrFeatures
    /\ df[Target].feat # df[LastHit].feat

\* C9: the radius of the estimator changes nothing: a successful call returns K rows,
\* among them rows farther from the query vector than the radius whenever those are
\* among the K nearest, and the same rows whatever the radius is set to.
C9_RadiusIsNoOp ==
    (Called /\ error = NoError) =>
        /\ Len(neigh_ind) = K
        /\ \A i \in Returned : \A j \in (1..Len(df)) \ Returned : DistTo(i) <= DistTo(j)
        /\ \A radius \in 0..(2 * Radius) :
              KNeighbors([n_nbrs EXCEPT !.radius = radius], x, K, tie_order,
                         n_features_first).ind = neigh_ind

C9_Witness ==
    /\ Called /\ error = NoError /\ Len(neigh_ind) = K
    /\ \E r \in 1..K : DistTo(neigh_ind[r]) > Radius * Radius

\* C10: no call changes the table (its rows, their feature vectors, their order),
\* whether it succeeds or fails; the index of a call is fitted on the rows in the
\* order in which the returned positions are mapped back to player-seasons.
C10_TableUnchanged ==
    [][ /\ df' = df
        /\ n_nbrs'.fit_X = Features(df')
        /\ error' = NoError =>
              (\A r \in 1..Len(neigh_ind') :
                  /\ printed'[r].player = df'[neigh_ind'[r]].player
                  /\ printed'[r].season = df'[neigh_ind'[r]].season) ]_vars

C10_Witness ==
    /\ Called /\ earlier.error # NoError /\ earlier.others = 1
    /\ error = NoError /\ n_nbrs.fit_X = Features(df)

====
